---------------------------- MODULE Spec2Model ----------------------------
(***************************************************************************)
(* A model of mbutil/util.py: the tile compaction engine                   *)
(* (compression_prepare / compression_do / compression_finalize), the      *)
(* bounded, resumable, retrying upload pipeline (upload_file,              *)
(* mbtiles_to_url / pmtiles_to_url), and the directory import and export   *)
(* (disk_to_mbtiles / mbtiles_to_disk) with flip_y.                        *)
(*                                                                         *)
(* SpecCompact explores compaction of every small tile table with every    *)
(* small chunk size.  A blob is modelled by a number that stands for its   *)
(* byte content: two tiles carry byte-identical blobs iff their numbers    *)
(* are equal.  The rowid of a tile is its position in the tiles table      *)
(* (the table is created empty by mbtiles_setup and only inserted into).   *)
(*                                                                         *)
(* Spec explores one run of mbtiles_to_url / pmtiles_to_url: the producer  *)
(* loop, the tasks run by the executor's threads and the done callbacks,   *)
(* interleaved statement by statement where they touch shared state (the   *)
(* semaphore, the counters executing and done, the token pool             *)
(* upload_urls).  A tile is identified by its upload key; key 0 is         *)
(* metadata.json, keys 1..NumTiles are the tiles in cursor order.          *)
(* SpecResume is the same run over a single tile, started from every       *)
(* content of the two resume lists.  The two remote endpoints answer as    *)
(* they please; the number of answers other than 200 they give in one run  *)
(* is bounded (faults), which also bounds the tokens issued.               *)
(* SpecLive is the run resumed with the first tile left, under weak        *)
(* fairness of the producer and of every task.                             *)
(*                                                                         *)
(* SpecRoundTrip imports every small directory of tile files with          *)
(* disk_to_mbtiles (with and without compaction) and exports the store     *)
(* again with mbtiles_to_disk; names of directories and files are texts    *)
(* of decimal digits, parsed by int and written by str.  SpecFlip calls    *)
(* flip_y on every row of every small zoom.                                *)
(***************************************************************************)
EXTENDS Integers, Sequences, FiniteSets

(* ------------------------------ bounds -------------------------------- *)
MaxTiles == 4
MaxChunk == 3
NumBlobs == 2
NumTiles == 3           \* tiles yielded by the cursor in Spec
MaxFaults == 1          \* answers other than 200 the endpoints give in Spec
MaxFaultsResume == 6    \* the same in SpecResume
MaxGrids == 1           \* rows of the grids table in SpecResume
NumTilesLive == 2       \* tiles yielded by the cursor in SpecLive
MaxFaultsLive == 5      \* answers other than 200 in SpecLive
MaxZoom == 5            \* zoom levels flip_y is called with in SpecFlip
MaxFlips == 2           \* successive calls of flip_y in SpecFlip
MaxKeyZoom == 21        \* zoom levels upload_tile is called with in SpecKey

\* MAX_WORKERS: 275 in the source, scaled down here; it sizes the semaphore
\* and the executor alike
MAX_WORKERS == 2

Blobs == 1..NumBlobs

VARIABLES
    cpc,            \* position of the compaction caller (disk_to_mbtiles 274-279)
    input,          \* the tiles table as it was before compaction started
    tiles,          \* the tiles table (a sequence of rows, rowid = position)
    chunk,          \* the chunk argument of compression_do
    total_tiles,    \* compression_do locals
    last_id,
    i,
    rows,           \* rows fetched for the current round and not yet visited
    ids,
    files,
    overlapping,
    unique,
    total,
    images,         \* images table, rows in insertion order
    map,            \* map table, rows in insertion order
    committed,      \* what the last con.commit() made durable
    view            \* rows of the tiles view once compression_finalize made it

cvars == <<cpc, input, tiles, chunk, total_tiles, last_id, i, rows, ids, files,
           overlapping, unique, total, images, map, committed, view>>

VARIABLES
    ppc,            \* position of the producer (mbtiles_to_url / pmtiles_to_url)
    ntiles,         \* number of tiles the cursor yields
    cur,            \* the tile t the producer loop holds (ntiles + 1: None)
    preg,           \* the value the producer loaded for "executing += 1"
    processed,      \* module globals of lines 416-425
    failures,
    use_failures,
    sem,            \* permits left in the semaphore
    executing,
    done,
    upload_urls,    \* the token pool, a list used as a stack
    next_token,     \* the next token the token endpoint will issue
    faults,         \* answers other than 200 the two endpoints may still give
    task,           \* per key: the upload_tile / upload_file call and its callback
    kind,           \* the source read: "mbtiles" (mbtiles_to_url) or "pmtiles"
    ngrids          \* rows of the grids table of the store

uvars == <<ppc, ntiles, cur, preg, processed, failures, use_failures, sem,
           executing, done, upload_urls, next_token, faults, task, kind,
           ngrids>>

VARIABLES
    dpc,            \* position of the caller of disk_to_mbtiles / mbtiles_to_disk
    listing,        \* the tile files of the directory, in os.listdir order
    scheme,         \* kwargs 'scheme'
    image_format,   \* kwargs 'format'
    compression,    \* kwargs 'compression'
    outtree,        \* the tile files mbtiles_to_disk wrote
    arg_zoom,       \* arguments handed to flip_y
    arg_y,
    flips,          \* what flip_y returned, call after call
    arg_x,          \* the column of the tile handed to upload_tile
    key             \* the key upload_tile handed to upload_file

dvars == <<dpc, listing, scheme, image_format, compression, outtree, arg_zoom,
           arg_y, flips, arg_x, key>>

vars == <<cvars, uvars, dvars>>

(* --------------------------- pure helpers ----------------------------- *)

RECURSIVE Pow2(_)
Pow2(n) == IF n = 0 THEN 1 ELSE 2 * Pow2(n - 1)

\* (a slip: the last row of a zoom taken to be 2^zoom)
flip_yOffByOne(zoom, y) == Pow2(zoom) - y

\* flip_y(zoom, y)
flip_y(zoom, y) == (Pow2(zoom) - 1) - y

\* The n-th tile address of the pyramid (n >= 1), zoom by zoom, column by
\* column: 1 -> (0,0,0), 2 -> (1,0,0), 3 -> (1,0,1), 4 -> (1,1,0), ...
RECURSIVE CoordAt(_, _)
CoordAt(n, z) ==
    LET side == Pow2(z)
        cnt  == side * side
    IN  IF n <= cnt
        THEN [zoom_level |-> z, tile_column |-> (n - 1) \div side,
              tile_row |-> (n - 1) % side]
        ELSE CoordAt(n - cnt, z + 1)

Row(n, d) == [zoom_level  |-> CoordAt(n, 0).zoom_level,
              tile_column |-> CoordAt(n, 0).tile_column,
              tile_row    |-> CoordAt(n, 0).tile_row,
              tile_data   |-> d]

\* Every tiles table of n rows: n distinct addresses (the unique index
\* tile_index of mbtiles_setup) in any storage order, any blob per tile.
Tables(n) ==
    { [k \in 1..n |-> Row(p[k], b[k])] :
        p \in { q \in [1..n -> 1..n] : \A a, c \in 1..n : a # c => q[a] # q[c] },
        b \in [1..n -> Blobs] }

\* str(n) for n >= 0, as the sequence of its decimal digits
RECURSIVE str(_)
str(n) == IF n < 10 THEN <<n>> ELSE Append(str(n \div 10), n % 10)

\* What a column of INTEGER affinity stores when handed a text of digits
RECURSIVE IntegerAffinity(_)
IntegerAffinity(s) ==
    IF Len(s) = 0 THEN 0
    ELSE 10 * IntegerAffinity(SubSeq(s, 1, Len(s) - 1)) + s[Len(s)]

\* x in lst
In(x, lst) == \E k \in DOMAIN lst : lst[k] = x

\* lst.index(x): the first position holding x (1-based here)
Index(lst, x) == CHOOSE k \in DOMAIN lst : lst[k] = x /\ \A j \in 1..(k - 1) : lst[j] # x

(* ------------------------ compression_do pieces ------------------------ *)

\* (a slip: range(total_tiles // chunk), the last partial round lost)
RoundsShort(n, c) == 0..((n \div c) - 1)

\* range(total_tiles // chunk + 1)
Rounds(n, c) == 0..(n \div c)

\* select ... from tiles where rowid > i*chunk and rowid <= (i+1)*chunk
SelectChunk(t, round, c) ==
    SelectSeq([k \in DOMAIN t |-> [rowid |-> k, r |-> t[k]]],
              LAMBDA e : e.rowid > round * c /\ e.rowid <= (round + 1) * c)

\* (a slip: the id of the blob seen last, ids[-1])
LookupIdLast(idl, fl, d) == idl[Len(idl)]

\* ids[files.index(r[3])]
LookupId(idl, fl, d) == idl[Index(fl, d)]

\* (a slip: the id taken from the per-round list, len(ids) + 1)
AssignIdPerRound(lid) == Len(ids) + 1

\* last_id += 1
AssignId(lid) == lid + 1

\* map JOIN images on images.tile_id = map.tile_id, as the nested loop
\* over map rows and, for each, the images rows
RECURSIVE JoinRow(_, _, _)
JoinRow(m, im, k) ==
    IF k > Len(im) THEN <<>>
    ELSE (IF im[k].tile_id = m.tile_id
          THEN <<[zoom_level |-> m.zoom_level, tile_column |-> m.tile_column,
                  tile_row |-> m.tile_row, tile_data |-> im[k].tile_data]>>
          ELSE <<>>) \o JoinRow(m, im, k + 1)

RECURSIVE Join(_, _, _)
Join(mp, im, k) ==
    IF k > Len(mp) THEN <<>> ELSE JoinRow(mp[k], im, 1) \o Join(mp, im, k + 1)

Addr(r) == <<r.zoom_level, r.tile_column, r.tile_row>>

\* CREATE UNIQUE INDEX map_index on map (zoom_level, tile_column, tile_row)
UniqueMapIndex(tbl) ==
    \A a, b \in DOMAIN tbl : a # b => Addr(tbl[a]) # Addr(tbl[b])

\* CREATE UNIQUE INDEX images_id on images (tile_id)
UniqueImagesId(tbl) ==
    \A a, b \in DOMAIN tbl : a # b => tbl[a].tile_id # tbl[b].tile_id

(* ------------------------------ Init ----------------------------------- *)

\* a task record before the task is submitted
Blank(k) == [pc |-> "new", key |-> k, attempt |-> 0, uploadurl |-> 0, s |-> 0,
             transfers |-> 0, result |-> "none",
             nfail |-> 0, registered |-> FALSE, reg |-> 0,
             err |-> "none", slept |-> 0, after |-> 0, prev401 |-> FALSE]

\* no upload run in progress
IdleUpload ==
    /\ ppc = "idle"
    /\ ntiles = 0
    /\ cur = 0
    /\ preg = 0
    /\ processed = {}
    /\ failures = {}
    /\ use_failures = FALSE
    /\ sem = MAX_WORKERS
    /\ executing = 0
    /\ done = 0
    /\ upload_urls = <<>>
    /\ next_token = 1
    /\ faults = 0
    /\ task = [k \in 0..0 |-> Blank(k)]
    /\ kind = "mbtiles"
    /\ ngrids = 0

\* no key built yet
NoKey == [prefix |-> "", dir |-> <<>>, stem |-> <<>>, ext |-> ""]

\* no import or export in progress, no call of flip_y or upload_tile
IdleDisk ==
    /\ dpc = "idle"
    /\ listing = <<>>
    /\ scheme = "tms"
    /\ image_format = "png"
    /\ compression = FALSE
    /\ outtree = {}
    /\ arg_zoom = 0
    /\ arg_y = 0
    /\ flips = <<>>
    /\ arg_x = 0
    /\ key = NoKey

\* no compaction in progress
IdleCompact ==
    /\ cpc = "idle"
    /\ input = <<>>
    /\ tiles = <<>>
    /\ chunk = 1
    /\ total_tiles = 0
    /\ last_id = 0
    /\ i = 0
    /\ rows = <<>>
    /\ ids = <<>>
    /\ files = <<>>
    /\ overlapping = 0
    /\ unique = 0
    /\ total = 0
    /\ images = <<>>
    /\ map = <<>>
    /\ committed = [images |-> <<>>, map |-> <<>>]
    /\ view = <<>>

InitCompact ==
    /\ IdleUpload
    /\ IdleDisk
    /\ cpc = "prepare"
    /\ \E n \in 0..MaxTiles : tiles \in Tables(n)
    /\ input = tiles
    /\ chunk \in 1..MaxChunk
    /\ total_tiles = 0
    /\ last_id = 0
    /\ i = 0
    /\ rows = <<>>
    /\ ids = <<>>
    /\ files = <<>>
    /\ overlapping = 0
    /\ unique = 0
    /\ total = 0
    /\ images = <<>>
    /\ map = <<>>
    /\ committed = [images |-> <<>>, map |-> <<>>]
    /\ view = <<>>

(* ----------------------------- actions --------------------------------- *)

\* compression_prepare, then the head of compression_do (lines 87-93)
CompressionPrepare ==
    /\ cpc = "prepare"
    /\ UNCHANGED <<uvars, dvars>>
    /\ images' = <<>>
    /\ map' = <<>>
    /\ overlapping' = 0
    /\ unique' = 0
    /\ total' = 0
    /\ total_tiles' = Len(tiles)
    /\ last_id' = 0
    /\ i' = 0
    /\ cpc' = IF 0 \in Rounds(Len(tiles), chunk) THEN "round" ELSE "finalize"
    /\ UNCHANGED <<input, tiles, chunk, rows, ids, files, committed, view>>

\* one iteration of "for i in range(...)" up to cur.fetchall() (lines 96-106)
BeginRound ==
    /\ cpc = "round"
    /\ UNCHANGED <<uvars, dvars>>
    /\ i \in Rounds(total_tiles, chunk)
    /\ ids' = <<>>
    /\ files' = <<>>
    /\ rows' = SelectChunk(tiles, i, chunk)
    /\ cpc' = "rows"
    /\ UNCHANGED <<input, tiles, chunk, total_tiles, last_id, i, overlapping,
                   unique, total, images, map, committed, view>>

\* "for r in rows", the branch "if r[3] in files" (lines 108-117)
RowDuplicate ==
    /\ cpc = "rows"
    /\ UNCHANGED <<uvars, dvars>>
    /\ rows # <<>>
    /\ LET r == Head(rows).r IN
       /\ In(r.tile_data, files)
       /\ total' = total + 1
       /\ overlapping' = overlapping + 1
       /\ map' = Append(map, [zoom_level |-> r.zoom_level,
                              tile_column |-> r.tile_column,
                              tile_row |-> r.tile_row,
                              tile_id |-> LookupId(ids, files, r.tile_data)])
    /\ rows' = Tail(rows)
    /\ UNCHANGED <<cpc, input, tiles, chunk, total_tiles, last_id, i, ids, files,
                   unique, images, committed, view>>

\* RowUnique on a connection in autocommit mode: each insert is durable at once
RowUniqueAutocommit ==
    /\ cpc = "rows"
    /\ UNCHANGED <<uvars, dvars>>
    /\ rows # <<>>
    /\ LET r == Head(rows).r
           nid == AssignId(last_id) IN
       /\ ~In(r.tile_data, files)
       /\ total' = total + 1
       /\ unique' = unique + 1
       /\ last_id' = nid
       /\ ids' = Append(ids, nid)
       /\ files' = Append(files, r.tile_data)
       /\ images' = Append(images, [tile_id |-> IntegerAffinity(str(nid)),
                                    tile_data |-> r.tile_data])
       /\ map' = Append(map, [zoom_level |-> r.zoom_level,
                              tile_column |-> r.tile_column,
                              tile_row |-> r.tile_row,
                              tile_id |-> nid])
    /\ committed' = [images |-> images', map |-> map']
    /\ rows' = Tail(rows)
    /\ UNCHANGED <<cpc, input, tiles, chunk, total_tiles, i, overlapping, view>>

\* "for r in rows", the else branch (lines 118-136)
RowUnique ==
    /\ cpc = "rows"
    /\ UNCHANGED <<uvars, dvars>>
    /\ rows # <<>>
    /\ LET r == Head(rows).r
           nid == AssignId(last_id) IN
       /\ ~In(r.tile_data, files)
       /\ total' = total + 1
       /\ unique' = unique + 1
       /\ last_id' = nid
       /\ ids' = Append(ids, nid)
       /\ files' = Append(files, r.tile_data)
       /\ images' = Append(images, [tile_id |-> IntegerAffinity(str(nid)),
                                    tile_data |-> r.tile_data])
       /\ map' = Append(map, [zoom_level |-> r.zoom_level,
                              tile_column |-> r.tile_column,
                              tile_row |-> r.tile_row,
                              tile_id |-> nid])
    /\ rows' = Tail(rows)
    /\ UNCHANGED <<cpc, input, tiles, chunk, total_tiles, i, overlapping,
                   committed, view>>

\* con.commit() at the end of a round, and the step of the for loop (line 139)
CommitRound ==
    /\ cpc = "rows"
    /\ UNCHANGED <<uvars, dvars>>
    /\ rows = <<>>
    /\ committed' = [images |-> images, map |-> map]
    /\ i' = i + 1
    /\ cpc' = IF (i + 1) \in Rounds(total_tiles, chunk) THEN "round" ELSE "finalize"
    /\ UNCHANGED <<input, tiles, chunk, total_tiles, last_id, rows, ids, files,
                   overlapping, unique, total, images, map, view>>

\* compression_finalize: drop tiles, create the view, create the two unique
\* indexes (either fails, raising, when its table holds a duplicate key)
CompressionFinalize ==
    /\ cpc = "finalize"
    /\ UNCHANGED <<uvars, dvars>>
    /\ tiles' = <<>>
    /\ view' = Join(map, images, 1)
    /\ cpc' = IF UniqueMapIndex(map) /\ UniqueImagesId(images)
              THEN "finalized" ELSE "error"
    /\ UNCHANGED <<input, chunk, total_tiles, last_id, i, rows, ids, files,
                   overlapping, unique, total, images, map, committed>>

NextCompact ==
    \/ CompressionPrepare
    \/ BeginRound
    \/ RowDuplicate
    \/ RowUnique
    \/ CommitRound
    \/ CompressionFinalize

SpecCompact == InitCompact /\ [][NextCompact]_vars

\* a statement of round i raises sqlite3.Error (disk full, I/O error): the
\* select of line 103, an insert of lines 117, 129, 135 or the commit of
\* line 139. Neither compression_do nor disk_to_mbtiles catches it: the call
\* ends, the connection is dropped without a commit and SQLite rolls the open
\* transaction back, so the file keeps what the last commit wrote. images and
\* map keep what the connection had seen when the statement raised.
StorageError ==
    /\ cpc \in {"round", "rows"}
    /\ UNCHANGED <<uvars, dvars>>
    /\ cpc' = "aborted"
    /\ UNCHANGED <<input, tiles, chunk, total_tiles, last_id, i, rows, ids, files,
                   overlapping, unique, total, images, map, committed, view>>

NextAbort ==
    \/ NextCompact
    \/ StorageError

SpecAbort == InitCompact /\ [][NextAbort]_vars

(* ============ flip_y, disk_to_mbtiles and mbtiles_to_disk ============== *)

\* the chunk disk_to_mbtiles hands to compression_do
CompressionChunk == 256

Schemes == {"tms", "xyz"}
Formats == {"png", "jpg"}

\* int(s) for a text of decimal digits
RECURSIVE int(_)
int(s) == IF Len(s) = 1 THEN s[1]
          ELSE 10 * int(SubSeq(s, 1, Len(s) - 1)) + s[Len(s)]

\* the tile file {zoom}/{column}/{row}.{ext} of the n-th address, the names
\* being the decimal texts of the numbers
TileFile(n, d, f) ==
    [zoom_dir  |-> str(CoordAt(n, 0).zoom_level),
     row_dir   |-> str(CoordAt(n, 0).tile_column),
     file_name |-> str(CoordAt(n, 0).tile_row),
     ext       |-> f,
     content   |-> d]

Path(f) == <<f.zoom_dir, f.row_dir, f.file_name, f.ext>>

\* the nested loops over os.listdir (lines 200-215) visit a directory's
\* entries together: zoom by zoom, and in a zoom column by column
Grouped(l) ==
    \A a, b, c \in DOMAIN l :
        a < b /\ b < c =>
            /\ l[a].zoom_dir = l[c].zoom_dir => l[b].zoom_dir = l[a].zoom_dir
            /\ (l[a].zoom_dir = l[c].zoom_dir /\ l[a].row_dir = l[c].row_dir) =>
                   l[b].row_dir = l[a].row_dir

\* every directory of n tile files of format f, in every order os.listdir
\* may give
Listings(n, f) ==
    { l \in { [k \in 1..n |-> TileFile(p[k], b[k], f)] :
                p \in { q \in [1..n -> 1..n] :
                          \A a, c \in 1..n : a # c => q[a] # q[c] },
                b \in [1..n -> Blobs] } : Grouped(l) }

\* the row disk_to_mbtiles inserts for a file (lines 212-249)
ImportRow(f, sch) ==
    LET z == int(f.zoom_dir)
        x == int(f.row_dir)
    IN  [zoom_level  |-> z,
         tile_column |-> x,
         tile_row    |-> IF sch = "xyz" THEN flip_y(z, int(f.file_name))
                         ELSE int(f.file_name),
         tile_data   |-> f.content]

\* (a slip: the row number written as stored, whatever the scheme)
ExportFileUnflipped(r, sch, f) ==
    [zoom_dir  |-> str(r.zoom_level),
     row_dir   |-> str(r.tile_column),
     file_name |-> str(r.tile_row),
     ext       |-> f,
     content   |-> r.tile_data]

\* the file mbtiles_to_disk writes for a row (lines 314-340)
ExportFile(r, sch, f) ==
    [zoom_dir  |-> str(r.zoom_level),
     row_dir   |-> str(r.tile_column),
     file_name |-> str(IF sch = "xyz" THEN flip_y(r.zoom_level, r.tile_row)
                       ELSE r.tile_row),
     ext       |-> f,
     content   |-> r.tile_data]

\* "while t:" of mbtiles_to_disk: open(tile, 'wb') replaces a file that is
\* already there
RECURSIVE WriteAll(_, _, _, _, _)
WriteAll(rws, k, tree, sch, f) ==
    IF k > Len(rws) THEN tree
    ELSE LET new == ExportFile(rws[k], sch, f)
         IN  WriteAll(rws, k + 1,
                      { g \in tree : Path(g) # Path(new) } \cup {new}, sch, f)

\* the rows "select ... from tiles" gives: the table, or the view that
\* compression_finalize put in its place
TilesRelation == IF cpc = "finalized" THEN view ELSE tiles

InitRoundTrip ==
    /\ IdleUpload
    /\ IdleCompact
    /\ dpc = "import"
    /\ scheme \in Schemes
    /\ image_format \in Formats
    /\ compression \in BOOLEAN
    /\ \E n \in 0..MaxTiles : listing \in Listings(n, image_format)
    /\ outtree = {}
    /\ arg_zoom = 0
    /\ arg_y = 0
    /\ flips = <<>>
    /\ arg_x = 0
    /\ key = NoKey

\* disk_to_mbtiles up to the end of the insert loop (lines 170-270); with
\* 'compression' the three compression_* calls follow (lines 274-277)
DiskToMbtiles ==
    /\ dpc = "import"
    /\ LET kept == SelectSeq(listing, LAMBDA f : f.ext = image_format)
           inserted == [k \in DOMAIN kept |-> ImportRow(kept[k], scheme)]
       IN  /\ tiles' = inserted
           /\ input' = inserted
    /\ chunk' = CompressionChunk
    /\ cpc' = IF compression THEN "prepare" ELSE cpc
    /\ dpc' = "imported"
    /\ UNCHANGED <<total_tiles, last_id, i, rows, ids, files, overlapping,
                   unique, total, images, map, committed, view>>
    /\ UNCHANGED <<uvars, listing, scheme, image_format, compression, outtree,
                   arg_zoom, arg_y, flips, arg_x, key>>

\* mbtiles_to_disk over the store disk_to_mbtiles left (lines 290-345)
MbtilesToDisk ==
    /\ dpc = "imported"
    /\ cpc = IF compression THEN "finalized" ELSE "idle"
    /\ outtree' = WriteAll(TilesRelation, 1, {}, scheme, image_format)
    /\ dpc' = "exported"
    /\ UNCHANGED <<cvars, uvars, listing, scheme, image_format, compression,
                   arg_zoom, arg_y, flips, arg_x, key>>

NextRoundTrip ==
    \/ DiskToMbtiles
    \/ CompressionPrepare
    \/ BeginRound
    \/ RowDuplicate
    \/ RowUnique
    \/ CommitRound
    \/ CompressionFinalize
    \/ MbtilesToDisk

SpecRoundTrip == InitRoundTrip /\ [][NextRoundTrip]_vars

\* a call of flip_y on a tile row of some zoom, and a second call on what
\* the first returned
InitFlip ==
    /\ IdleUpload
    /\ IdleCompact
    /\ dpc = "flip"
    /\ listing = <<>>
    /\ scheme = "xyz"
    /\ image_format = "png"
    /\ compression = FALSE
    /\ outtree = {}
    /\ arg_zoom \in 0..MaxZoom
    /\ arg_y \in 0..(Pow2(arg_zoom) - 1)
    /\ flips = <<>>
    /\ arg_x = 0
    /\ key = NoKey

FlipY ==
    /\ dpc = "flip"
    /\ Len(flips) < MaxFlips
    /\ flips' = Append(flips, flip_y(arg_zoom, IF flips = <<>> THEN arg_y
                                               ELSE flips[Len(flips)]))
    /\ UNCHANGED <<cvars, uvars, dpc, listing, scheme, image_format,
                   compression, outtree, arg_zoom, arg_y, arg_x, key>>

NextFlip == FlipY

SpecFlip == InitFlip /\ [][NextFlip]_vars

(* ============================ upload_tile ============================== *)

\* kwargs 'prefix'
KeyPrefix == "tiles"

\* kwargs 'scheme' of an upload
KeySchemes == {"tms", "xyz", "wms"}

\* the coordinates tried at a zoom: the ends of the range and the values
\* around the group boundaries of the wms layout
KeyCoords(z) ==
    { v \in {0, 1, 7, 999, 1000, 1001, 12345, 999999, 1000000, 1234567,
             Pow2(z) - 1} : v < Pow2(z) }

\* a digit text padded with zeros on the left to the width w
RECURSIVE Pad(_, _)
Pad(s, w) == IF Len(s) >= w THEN s ELSE Pad(<<0>> \o s, w)

\* "%0wd" % n for an int n >= 0
ZeroPadded(n, w) == Pad(str(n), w)

\* a / b of Python 3 on ints a >= 0, b > 0: a float, kept here as its whole
\* part and the numerator of its fraction
TrueDiv(a, b) == [whole |-> a \div b, frac |-> a % b]

\* (a slip: the "% 1000" left out)
FloatModDropped(f, m) == f

\* f % m on a float f >= 0
FloatMod(f, m) == [whole |-> f.whole % m, frac |-> f.frac]

\* "%0wd" % f for a float f: %d drops the fraction
FormatD(f, w) == Pad(str(f.whole), w)

\* upload_tile(t, url, **kwargs) with t = [z, x, y, data]: the key it hands
\* to upload_file, os.path.join(prefix, *dir, stem + "." + ext)
upload_tile(z, x, y0, sch, f) ==
    LET y == IF sch = "xyz" THEN flip_y(z, y0) ELSE y0
        tile_dir ==
            IF sch = "wms"
            THEN << ZeroPadded(z, 2),
                    FormatD(TrueDiv(x, 1000000), 3),
                    FormatD(FloatMod(TrueDiv(x, 1000), 1000), 3),
                    ZeroPadded(x % 1000, 3),
                    FormatD(TrueDiv(y, 1000000), 3),
                    FormatD(FloatMod(TrueDiv(y, 1000), 1000), 3) >>
            ELSE << str(z), str(x) >>
        stem == IF sch = "wms" THEN ZeroPadded(y % 1000, 3) ELSE str(y)
    IN  [prefix |-> KeyPrefix, dir |-> tile_dir, stem |-> stem, ext |-> f]

\* one tile of a source about to be handed to upload_tile: arg_y is the row
\* the source gives (the tile_row of the tiles table, zxy[2] of the archive)
InitKey ==
    /\ IdleUpload
    /\ IdleCompact
    /\ dpc = "tile"
    /\ listing = <<>>
    /\ scheme \in KeySchemes
    /\ image_format \in Formats
    /\ compression = FALSE
    /\ outtree = {}
    /\ arg_zoom \in 0..MaxKeyZoom
    /\ arg_x \in KeyCoords(arg_zoom)
    /\ arg_y \in KeyCoords(arg_zoom)
    /\ flips = <<>>
    /\ key = NoKey

\* mbtiles_to_url: executor.submit(upload_tile, t, url, **kwargs) (line 537)
UploadTileMbtiles ==
    /\ dpc = "tile"
    /\ key' = upload_tile(arg_zoom, arg_x, arg_y, scheme, image_format)
    /\ dpc' = "key_mbtiles"
    /\ UNCHANGED <<cvars, uvars, listing, scheme, image_format, compression,
                   outtree, arg_zoom, arg_y, flips, arg_x>>

\* pmtiles_to_url: flipped_y = (1 << z) - 1 - zxy[2], then
\* executor.submit(upload_tile, [z, x, flipped_y, t[1]], ...) (lines 590-594)
UploadTilePmtiles ==
    /\ dpc = "tile"
    /\ LET flipped_y == Pow2(arg_zoom) - 1 - arg_y IN
       key' = upload_tile(arg_zoom, arg_x, flipped_y, scheme, image_format)
    /\ dpc' = "key_pmtiles"
    /\ UNCHANGED <<cvars, uvars, listing, scheme, image_format, compression,
                   outtree, arg_zoom, arg_y, flips, arg_x>>

NextKey ==
    \/ UploadTileMbtiles
    \/ UploadTilePmtiles

SpecKey == InitKey /\ [][NextKey]_vars

(* ======================= the upload pipeline ========================== *)

\* range(0, 5) of upload_file
Attempts == 5

\* what a transfer request ends with: a response with its status, or
\* http.request raising instead of returning one
TransferOutcomes ==
    { [raised |-> FALSE, status |-> 200],
      [raised |-> FALSE, status |-> 401],
      [raised |-> FALSE, status |-> 408],
      [raised |-> FALSE, status |-> 429],
      [raised |-> FALSE, status |-> 500],
      [raised |-> TRUE,  status |-> 0] }

\* answers of the token endpoint: status, and whether a Retry-After header
\* comes with it
AcquireOutcomes ==
    { [status |-> 200, retry_after |-> FALSE],
      [status |-> 429, retry_after |-> FALSE],
      [status |-> 429, retry_after |-> TRUE],
      [status |-> 503, retry_after |-> FALSE],
      [status |-> 403, retry_after |-> FALSE] }

\* (a slip: "if" instead of "elif", the success list also consulted when
\* the failure list is in use)
SkipsEitherList(k) ==
    \/ use_failures /\ k \notin failures
    \/ k \in processed

\* (a slip: the success list not consulted)
SkipsFailuresOnly(k) == use_failures /\ k \notin failures

\* the two early returns of upload_file (lines 428-434)
Skips(k) ==
    IF use_failures THEN k \notin failures ELSE k \in processed

\* (a slip: a non-blocking acquire whose result is not looked at)
CanAcquireAlways(permits) == TRUE

\* sem.acquire() returns only when a permit is left
CanAcquire(permits) == permits > 0

\* the end of one pass of "for attempt in range(0,5)" that did not return:
\* the next pass, or after the last one the Failure record and the return.
\* In a task record err is the exception the except clause of line 467 took
\* in the pass just ended (none once the next pass runs), and prev401 tells
\* that the last pass that ended without success ended with a 401.
EndAttempt(r) ==
    IF r.attempt + 1 < Attempts
    THEN [r EXCEPT !.attempt = r.attempt + 1, !.pc = "check", !.uploadurl = 0,
                   !.s = 0, !.slept = 0, !.after = 0]
    ELSE [r EXCEPT !.attempt = 0, !.pc = "returned", !.uploadurl = 0,
                   !.s = 0, !.slept = 0, !.after = 0, !.err = "none",
                   !.result = "Failure", !.nfail = r.nfail + 1]

\* tasks that occupy a thread of the executor: running upload_tile, or
\* running their done callbacks on the thread that ran them
Inline(t) == ppc = "inline" /\ cur = t

Busy ==
    { t \in DOMAIN task \ {0} :
        \/ task[t].pc \in {"check", "pop", "acquire", "transfer"}
        \/ /\ task[t].pc \in {"returned", "cb1", "cb2", "cb3", "cb4"}
           /\ task[t].registered
           /\ ~Inline(t) }

Keys(n) == 0..n

\* every content of success_urls.txt and failure_urls.txt (lines 416-425):
\* a missing success list reads as the empty set; use_failures is TRUE
\* exactly when the failure list could be opened, whatever it holds
InitResume(n) ==
    /\ processed \in SUBSET Keys(n)
    /\ \/ use_failures = FALSE /\ failures = {}
       \/ use_failures = TRUE /\ failures \in SUBSET Keys(n)

InitRun(n) ==
    /\ IdleCompact
    /\ IdleDisk
    /\ ppc = "metadata"
    /\ ntiles = n
    /\ cur = 0
    /\ preg = 0
    /\ sem = MAX_WORKERS
    /\ executing = 0
    /\ done = 0
    /\ upload_urls = <<>>
    /\ next_token = 1
    /\ task = [k \in 0..n |-> IF k = 0 THEN [Blank(k) EXCEPT !.pc = "queued"]
                                       ELSE Blank(k)]

\* a first run, or a run resumed after tile 1 alone had succeeded
Init ==
    /\ InitRun(NumTiles)
    /\ faults = MaxFaults
    /\ kind = "mbtiles"
    /\ ngrids = 0
    /\ processed \in {{}, {1}}
    /\ use_failures = FALSE
    /\ failures = {}

\* the store read: an mbtiles file with or without grids, or a pmtiles
\* archive, which holds tiles and metadata only
InitSource ==
    \/ kind = "mbtiles" /\ ngrids \in 0..MaxGrids
    \/ kind = "pmtiles" /\ ngrids = 0

InitOneTile ==
    /\ InitRun(1)
    /\ faults = MaxFaultsResume
    /\ InitResume(1)
    /\ InitSource

\* a run resumed when only the first tile is left to upload, with
\* endpoints that may fail a tile for good
InitLive ==
    /\ InitRun(NumTilesLive)
    /\ faults = MaxFaultsLive
    /\ kind = "mbtiles"
    /\ ngrids = 0
    /\ processed = 2..NumTilesLive
    /\ use_failures = FALSE
    /\ failures = {}

(* ------------------------ upload_tile / upload_file --------------------- *)

\* a thread takes the task: upload_tile builds the key and calls
\* upload_file, which returns at once for a key to skip (lines 427-434);
\* for key 0 the producer itself makes the call (line 511)
Start(t) ==
    /\ task[t].pc = "queued"
    /\ t # 0 => Cardinality(Busy) < MAX_WORKERS
    /\ task' = [task EXCEPT ![t] =
                  IF Skips(task[t].key)
                  THEN [@ EXCEPT !.pc = "returned", !.result = "Skip"]
                  ELSE [@ EXCEPT !.pc = "check", !.attempt = 0]]
    /\ UNCHANGED <<cvars, dvars, kind, ngrids,
                   ppc, ntiles, cur, preg, processed, failures,
                   use_failures, sem, executing, done, upload_urls, next_token, faults>>

\* (a slip: the pool never consulted, every pass acquires a token)
CheckPoolIgnored(t) ==
    /\ task[t].pc = "check"
    /\ task' = [task EXCEPT ![t] =
                  [@ EXCEPT !.pc = "acquire", !.s = 1, !.err = "none"]]
    /\ UNCHANGED <<cvars, dvars, kind, ngrids,
                   ppc, ntiles, cur, preg, processed, failures,
                   use_failures, sem, executing, done, upload_urls, next_token, faults>>

\* "if len(upload_urls) > 0" (line 439)
CheckPool(t) ==
    /\ task[t].pc = "check"
    /\ task' = [task EXCEPT ![t] =
                  IF Len(upload_urls) > 0
                  THEN [@ EXCEPT !.pc = "pop", !.err = "none"]
                  ELSE [@ EXCEPT !.pc = "acquire", !.s = 1, !.err = "none"]]
    /\ UNCHANGED <<cvars, dvars, kind, ngrids,
                   ppc, ntiles, cur, preg, processed, failures,
                   use_failures, sem, executing, done, upload_urls, next_token, faults>>

\* "uploadurl = upload_urls.pop()" (line 440); pop of an empty list raises
\* IndexError, which the except clause of line 467 takes
Pop(t) ==
    /\ task[t].pc = "pop"
    /\ IF Len(upload_urls) > 0
       THEN /\ upload_urls' = SubSeq(upload_urls, 1, Len(upload_urls) - 1)
            /\ task' = [task EXCEPT ![t] =
                          [@ EXCEPT !.pc = "transfer",
                                    !.uploadurl = upload_urls[Len(upload_urls)]]]
       ELSE /\ upload_urls' = upload_urls
            /\ task' = [task EXCEPT ![t] =
                          EndAttempt([@ EXCEPT !.err = "IndexError",
                                               !.prev401 = FALSE])]
    /\ UNCHANGED <<cvars, dvars, kind, ngrids,
                   ppc, ntiles, cur, preg, processed, failures,
                   use_failures, sem, executing, done, next_token, faults>>

\* one request of get_upload_url and what it does with the answer
\* (lines 399-412): 200 returns the token; 429 sleeps
\* headers.get('Retry-After', s) and sets s = 1, but time.sleep raises
\* TypeError when handed the header's text; 503 sleeps s and doubles it;
\* anything else raises.  What get_upload_url raises is taken by the except
\* clause of line 467, which logs it (err).  slept is the duration of the
\* last sleep of this call and after the status that led to it.
Acquire(t) ==
    /\ task[t].pc = "acquire"
    /\ \E a \in AcquireOutcomes :
         /\ a.status # 200 => faults > 0
         /\ faults' = IF a.status # 200 THEN faults - 1 ELSE faults
         /\ IF a.status = 200
            THEN /\ task' = [task EXCEPT ![t] =
                               [@ EXCEPT !.pc = "transfer",
                                         !.uploadurl = next_token,
                                         !.s = 0, !.slept = 0, !.after = 0]]
                 /\ next_token' = next_token + 1
            ELSE /\ next_token' = next_token
                 /\ task' = [task EXCEPT ![t] =
                      IF a.status = 429 /\ ~a.retry_after
                      THEN [@ EXCEPT !.slept = task[t].s, !.after = 429,
                                     !.s = 1]
                      ELSE IF a.status = 429
                      THEN EndAttempt([@ EXCEPT !.err = "TypeError",
                                                !.prev401 = FALSE])
                      ELSE IF a.status = 503
                      THEN [@ EXCEPT !.slept = task[t].s, !.after = 503,
                                     !.s = 2 * task[t].s]
                      ELSE EndAttempt([@ EXCEPT !.err = "could not access url",
                                                !.prev401 = FALSE])]
    /\ UNCHANGED <<cvars, dvars, kind, ngrids,
                   ppc, ntiles, cur, preg, processed, failures,
                   use_failures, sem, executing, done, upload_urls>>

\* (a slip: the token put back whatever the status)
ReturnsTokenAlways(o) == TRUE

\* "if resp1.status != 401" (line 459)
ReturnsToken(o) == o.status # 401

\* the transfer request and what follows it (lines 458-468): any status
\* but 401 puts the token back; 200 records Success and returns; a raised
\* request skips the append and is logged by the except clause
Transfer(t) ==
    /\ task[t].pc = "transfer"
    /\ \E o \in TransferOutcomes :
         /\ o.status # 200 => faults > 0
         /\ faults' = IF o.status # 200 THEN faults - 1 ELSE faults
         /\ upload_urls' = IF ~o.raised /\ ReturnsToken(o)
                           THEN Append(upload_urls, task[t].uploadurl)
                           ELSE upload_urls
         /\ task' = [task EXCEPT ![t] =
                       IF o.status = 200
                       THEN [@ EXCEPT !.pc = "returned", !.attempt = 0,
                                      !.uploadurl = 0,
                                      !.transfers = @ + 1,
                                      !.result = "Success"]
                       ELSE EndAttempt([@ EXCEPT !.transfers = @ + 1,
                                                 !.err = IF o.raised
                                                         THEN "transport"
                                                         ELSE "none",
                                                 !.prev401 = ~o.raised /\
                                                             o.status = 401])]
    /\ UNCHANGED <<cvars, dvars, kind, ngrids,
                   ppc, ntiles, cur, preg, processed, failures,
                   use_failures, sem, executing, done, next_token>>

(* ------------------------------ doneCb ---------------------------------- *)

\* "executing -= 1" (line 527): the load
CbLoadExecuting(t) ==
    /\ t # 0
    /\ task[t].pc = "returned"
    /\ task[t].registered
    /\ task' = [task EXCEPT ![t] = [@ EXCEPT !.pc = "cb1", !.reg = executing]]
    /\ UNCHANGED <<cvars, dvars, kind, ngrids,
                   ppc, ntiles, cur, preg, processed, failures,
                   use_failures, sem, executing, done, upload_urls, next_token, faults>>

\* "executing -= 1": the store
CbStoreExecuting(t) ==
    /\ task[t].pc = "cb1"
    /\ executing' = task[t].reg - 1
    /\ task' = [task EXCEPT ![t] = [@ EXCEPT !.pc = "cb2", !.reg = 0]]
    /\ UNCHANGED <<cvars, dvars, kind, ngrids,
                   ppc, ntiles, cur, preg, processed, failures,
                   use_failures, sem, done, upload_urls, next_token, faults>>

\* "done = done + 1" (line 528): the load
CbLoadDone(t) ==
    /\ task[t].pc = "cb2"
    /\ task' = [task EXCEPT ![t] = [@ EXCEPT !.pc = "cb3", !.reg = done]]
    /\ UNCHANGED <<cvars, dvars, kind, ngrids,
                   ppc, ntiles, cur, preg, processed, failures,
                   use_failures, sem, executing, done, upload_urls, next_token, faults>>

\* "done = done + 1": the store
CbStoreDone(t) ==
    /\ task[t].pc = "cb3"
    /\ done' = task[t].reg + 1
    /\ task' = [task EXCEPT ![t] = [@ EXCEPT !.pc = "cb4", !.reg = 0]]
    /\ UNCHANGED <<cvars, dvars, kind, ngrids,
                   ppc, ntiles, cur, preg, processed, failures,
                   use_failures, sem, executing, upload_urls, next_token, faults>>

\* "sem.release()" (line 529); the callback returns and the task is over
CbRelease(t) ==
    /\ task[t].pc = "cb4"
    /\ sem' = sem + 1
    /\ task' = [task EXCEPT ![t] =
                  [Blank(task[t].key) EXCEPT !.pc = "closed",
                                             !.result = task[t].result]]
    /\ UNCHANGED <<cvars, dvars, kind, ngrids,
                   ppc, ntiles, cur, preg, processed, failures,
                   use_failures, executing, done, upload_urls, next_token, faults>>

(* ----------------------------- producer --------------------------------- *)

\* upload_file for metadata.json has returned; "done = 0", "executing = 0"
\* and the first fetch (lines 511-534, 570-587).  The metadata holds no
\* formatter entry, so line 518 is not reached.
ProducerBegin ==
    /\ ppc = "metadata"
    /\ task[0].pc = "returned"
    /\ task' = [task EXCEPT ![0] =
                  [Blank(0) EXCEPT !.pc = "closed", !.result = task[0].result]]
    /\ done' = 0
    /\ executing' = 0
    /\ cur' = 1
    /\ ppc' = "loop"
    /\ UNCHANGED <<cvars, dvars, kind, ngrids,
                   ntiles, preg, processed, failures, use_failures, sem,
                   upload_urls, next_token, faults>>

\* "while t: sem.acquire(); future = executor.submit(...)" (lines 535-537)
ProducerSubmit ==
    /\ ppc = "loop"
    /\ cur <= ntiles
    /\ CanAcquire(sem)
    /\ sem' = sem - 1
    /\ task' = [task EXCEPT ![cur] = [@ EXCEPT !.pc = "queued"]]
    /\ ppc' = "inc"
    /\ UNCHANGED <<cvars, dvars, kind, ngrids,
                   ntiles, cur, preg, processed, failures, use_failures,
                   executing, done, upload_urls, next_token, faults>>

\* "executing += 1" (line 538): the load
ProducerLoadExecuting ==
    /\ ppc = "inc"
    /\ preg' = executing
    /\ ppc' = "store"
    /\ UNCHANGED <<cvars, dvars, kind, ngrids,
                   ntiles, cur, processed, failures, use_failures, sem,
                   executing, done, upload_urls, next_token, faults, task>>

\* "executing += 1": the store
ProducerStoreExecuting ==
    /\ ppc = "store"
    /\ executing' = preg + 1
    /\ preg' = 0
    /\ ppc' = "add_cb"
    /\ UNCHANGED <<cvars, dvars, kind, ngrids,
                   ntiles, cur, processed, failures, use_failures, sem,
                   done, upload_urls, next_token, faults, task>>

\* (a slip: a callback added to a future that is already done is not run)
ProducerAddCallbackLost ==
    /\ ppc = "add_cb"
    /\ task' = [task EXCEPT ![cur] =
                  [@ EXCEPT !.registered = (task[cur].pc # "returned")]]
    /\ ppc' = "loop"
    /\ cur' = cur + 1
    /\ UNCHANGED <<cvars, dvars, kind, ngrids,
                   ntiles, preg, processed, failures, use_failures, sem,
                   executing, done, upload_urls, next_token, faults>>

\* "future.add_done_callback(doneCb)" (line 541): a future that is already
\* done runs the callback here, on the producer; otherwise the thread that
\* finishes the task runs it; then the next fetch (line 542)
ProducerAddCallback ==
    /\ ppc = "add_cb"
    /\ task' = [task EXCEPT ![cur] = [@ EXCEPT !.registered = TRUE]]
    /\ IF task[cur].pc = "returned"
       THEN ppc' = "inline" /\ cur' = cur
       ELSE ppc' = "loop" /\ cur' = cur + 1
    /\ UNCHANGED <<cvars, dvars, kind, ngrids,
                   ntiles, preg, processed, failures, use_failures, sem,
                   executing, done, upload_urls, next_token, faults>>

\* the callback run by add_done_callback has returned; the next fetch
ProducerInlineDone ==
    /\ ppc = "inline"
    /\ task[cur].pc = "closed"
    /\ ppc' = "loop"
    /\ cur' = cur + 1
    /\ UNCHANGED <<cvars, dvars, kind, ngrids,
                   ntiles, preg, processed, failures, use_failures, sem,
                   executing, done, upload_urls, next_token, faults, task>>

\* the cursor is exhausted; leaving the with block waits for every task
\* and its callbacks
ProducerExit ==
    /\ ppc = "loop"
    /\ cur > ntiles
    /\ \A t \in DOMAIN task : task[t].pc = "closed"
    /\ ppc' = "grids"
    /\ UNCHANGED <<cvars, dvars, kind, ngrids,
                   ntiles, cur, preg, processed, failures, use_failures,
                   sem, executing, done, upload_urls, next_token, faults, task>>

\* (a slip: the grids cursor never looked at)
ProducerGridsIgnored ==
    /\ ppc = "grids"
    /\ done' = IF kind = "mbtiles" THEN 0 ELSE done
    /\ ppc' = "done"
    /\ UNCHANGED <<cvars, dvars, kind, ngrids,
                   ntiles, cur, preg, processed, failures, use_failures,
                   sem, executing, upload_urls, next_token, faults, task>>

\* what follows the with block: in mbtiles_to_url "done = 0", the grids
\* query and "while g: raise Exception('grids are not supported')"
\* (lines 544-553); pmtiles_to_url returns (line 598)
ProducerGrids ==
    /\ ppc = "grids"
    /\ done' = IF kind = "mbtiles" THEN 0 ELSE done
    /\ ppc' = IF kind = "mbtiles" /\ ngrids > 0 THEN "raised" ELSE "done"
    /\ UNCHANGED <<cvars, dvars, kind, ngrids,
                   ntiles, cur, preg, processed, failures, use_failures,
                   sem, executing, upload_urls, next_token, faults, task>>

Next ==
    \/ ProducerBegin
    \/ ProducerSubmit
    \/ ProducerLoadExecuting
    \/ ProducerStoreExecuting
    \/ ProducerAddCallback
    \/ ProducerInlineDone
    \/ ProducerExit
    \/ ProducerGrids
    \/ \E t \in DOMAIN task : Start(t)
    \/ \E t \in DOMAIN task : CheckPool(t)
    \/ \E t \in DOMAIN task : Pop(t)
    \/ \E t \in DOMAIN task : Acquire(t)
    \/ \E t \in DOMAIN task : Transfer(t)
    \/ \E t \in DOMAIN task : CbLoadExecuting(t)
    \/ \E t \in DOMAIN task : CbStoreExecuting(t)
    \/ \E t \in DOMAIN task : CbLoadDone(t)
    \/ \E t \in DOMAIN task : CbStoreDone(t)
    \/ \E t \in DOMAIN task : CbRelease(t)

Spec == Init /\ [][Next]_vars

SpecResume == InitOneTile /\ [][Next]_vars

\* the main thread, which runs the producer loop
Producer ==
    \/ ProducerBegin
    \/ ProducerSubmit
    \/ ProducerLoadExecuting
    \/ ProducerStoreExecuting
    \/ ProducerAddCallback
    \/ ProducerInlineDone
    \/ ProducerExit
    \/ ProducerGrids

\* the thread that runs task t and then its callbacks
Worker(t) ==
    \/ Start(t)
    \/ CheckPool(t)
    \/ Pop(t)
    \/ Acquire(t)
    \/ Transfer(t)
    \/ CbLoadExecuting(t)
    \/ CbStoreExecuting(t)
    \/ CbLoadDone(t)
    \/ CbStoreDone(t)
    \/ CbRelease(t)

\* every thread that can take a step is scheduled in the end, and every
\* request, sleep and lock operation it makes returns
Fairness ==
    /\ WF_vars(Producer)
    /\ \A t \in 0..NumTilesLive : WF_vars(Worker(t))

SpecLive == InitLive /\ [][Next]_vars /\ Fairness

(* -------------------- properties of the upload run --------------------- *)

\* tiles submitted to the executor whose done callback has not yet
\* released its permit
InFlight == { t \in DOMAIN task \ {0} : task[t].pc \notin {"new", "closed"} }

\* the code is inside the attempt loop of upload_file for task t
InAttemptLoop(t) == task[t].pc \in {"check", "pop", "acquire", "transfer"}

\* upload_file has returned for task t and its record is still there
Returned(t) == task[t].pc \in {"returned", "cb1", "cb2", "cb3", "cb4"}

\* the resume modes as the specification defines them
FailuresOnly == use_failures /\ failures # {}
FullRun == ~FailuresOnly

\* C1: in every reachable state of a run, under every interleaving of the
\* producer, the tasks and the callbacks, the number of in-flight tiles is
\* at most MAX_WORKERS; every in-flight tile holds one permit, taken by the
\* producer before the submit.
C1_InFlightBounded ==
    /\ Cardinality(InFlight) <= MAX_WORKERS
    /\ sem >= 0
    /\ sem + Cardinality(InFlight) = MAX_WORKERS

\* the producer holds a tile and waits for a permit
C1_Witness ==
    /\ ppc = "loop"
    /\ cur <= ntiles
    /\ sem = 0
    /\ Cardinality(InFlight) = MAX_WORKERS

\* C2: an eligible tile whose upload never succeeds gets exactly 5
\* transfer attempts, whatever non-200 responses and exceptions occur, and
\* is then recorded Failed exactly once.
C2_FiveTransfersThenFailed ==
    \A t \in DOMAIN task \ {0} :
        /\ Returned(t) /\ task[t].result = "Failure" =>
               task[t].transfers = Attempts /\ task[t].nfail = 1
        /\ task[t].nfail <= 1
        /\ Returned(t) => task[t].result \in {"Skip", "Success", "Failure"}

\* C8: in FullRun mode no token acquisition and no transfer is ever made
\* for a key of the success list: upload_file returns Skipped for it without
\* entering the attempt loop.
C8_SuccessListNeverSubmitted ==
    \A t \in DOMAIN task :
        FullRun /\ task[t].key \in processed =>
            /\ ~InAttemptLoop(t)
            /\ task[t].transfers = 0
            /\ task[t].result \in {"none", "Skip"}

\* a key of the success list was met in FullRun mode and skipped
C8_Witness ==
    /\ FullRun
    /\ ~use_failures
    /\ \E t \in DOMAIN task \ {0} :
         /\ task[t].key \in processed
         /\ Returned(t)
         /\ task[t].result = "Skip"

\* C9: the mode is FailuresOnly exactly when a failure list is present and
\* non-empty; otherwise (absent, or present but empty) it is FullRun, where
\* every key that is not in the success list is eligible and is submitted.
C9_FullRunSubmitsTheRest ==
    \A t \in DOMAIN task :
        FullRun /\ task[t].key \notin processed => task[t].result # "Skip"

\* C10: in FailuresOnly mode a key that is not in the failure list is
\* skipped, whether or not it is in the success list, and a key of the
\* failure list is submitted even when it is also in the success list.
C10_FailuresOnly ==
    \A t \in DOMAIN task :
        FailuresOnly =>
            /\ task[t].key \notin failures =>
                 /\ ~InAttemptLoop(t)
                 /\ task[t].transfers = 0
                 /\ task[t].result \in {"none", "Skip"}
            /\ task[t].key \in failures => task[t].result # "Skip"

\* FailuresOnly: metadata.json, in neither list, was skipped and the tile,
\* in both lists, got a transfer
C10_Witness ==
    /\ FailuresOnly
    /\ 0 \notin failures
    /\ 0 \notin processed
    /\ task[0].result = "Skip"
    /\ 1 \in failures
    /\ 1 \in processed
    /\ task[1].transfers > 0

\* the tokens in circulation: in the pool, or in the hands of a task
Pool == { upload_urls[k] : k \in DOMAIN upload_urls }
InHand == { task[t].uploadurl : t \in DOMAIN task } \ {0}

\* the step in which the transfer request of task t is answered 401
Got401(t) ==
    /\ task[t].pc = "transfer"
    /\ task'[t].pc \in {"check", "returned"}
    /\ task'[t].result # "Success"
    /\ task'[t].prev401

\* a 401 takes the token out of circulation for good: it is in no pool and
\* in no hand afterwards, and a token enters circulation only when the
\* token endpoint issues it
Discarded401 ==
    /\ \A t \in DOMAIN task :
         Got401(t) => task[t].uploadurl \notin (Pool' \cup InHand')
    /\ (Pool' \cup InHand') \subseteq (Pool \cup InHand \cup {next_token})

\* a 401 before the last pass leads to the next pass of the same tile
NextPassAfter401 ==
    \A t \in DOMAIN task :
        Got401(t) /\ task[t].attempt + 1 < Attempts =>
            /\ task'[t].pc = "check"
            /\ task'[t].attempt = task[t].attempt + 1

C12_OnlyA401RemovesAToken ==
    [][ \A t \in DOMAIN task :
          /\ Got401(t) => task[t].uploadurl \notin Pool'
          /\ task[t].pc = "transfer" /\ task'[t].pc # "transfer" /\ ~Got401(t) =>
                 task[t].uploadurl \in Pool'
      ]_vars

\* C13: a status other than 200, 429 and 503 from the token endpoint is
\* fatal for the tile: once get_upload_url has raised for it, the tile
\* takes no token any more, neither from the pool nor from the endpoint,
\* and issues no transfer.
C13_FatalStatusNotRetried ==
    [][ \A t \in DOMAIN task :
          task[t].err = "could not access url" =>
              task'[t].pc \notin {"pop", "acquire", "transfer"}
      ]_vars

\* the state of tile t in the words of the specification
TileState(t) ==
    IF task[t].result = "Skip" THEN "Skipped"
    ELSE IF task[t].result = "Success" THEN "Success"
    ELSE IF task[t].result = "Failure" THEN "Failed"
    ELSE IF task[t].pc \in {"new", "queued"} THEN "Pending"
    ELSE "InFlight"

Terminal == {"Skipped", "Success", "Failed"}

LifecycleSteps ==
    { <<"Pending", "Pending">>, <<"Pending", "Skipped">>,
      <<"Pending", "InFlight">>, <<"InFlight", "InFlight">>,
      <<"InFlight", "Success">>, <<"InFlight", "Failed">>,
      <<"Skipped", "Skipped">>, <<"Success", "Success">>,
      <<"Failed", "Failed">> }

\* one step of the life of tile t: along the state machine, submitted at
\* most once, and with no pass of the attempt loop once a terminal state
\* is reached
LifecycleStep(t) ==
    /\ <<TileState(t), TileState(t)'>> \in LifecycleSteps
    /\ task'[t].pc = "queued" => task[t].pc \in {"new", "queued"}
    /\ task[t].pc # "new" => task'[t].pc # "new"
    /\ TileState(t) \in Terminal => task'[t].pc \notin {"check", "pop", "acquire", "transfer"}

\* C14: every tile follows Pending -> Skipped or Pending -> InFlight ->
\* {Success, Failed}, is submitted once, gets no transfer after its 200, and
\* in the end is in one terminal state with its task over; the run itself
\* comes to its end, whatever tiles exhausted their attempts.  (The token
\* endpoint answers 429/503 only finitely often: faults.)
C14_TileLifecycle ==
    /\ [][\A t \in DOMAIN task \ {0} : LifecycleStep(t)]_vars
    /\ \A t \in 1..NumTilesLive :
         <>[](task[t].pc = "closed" /\ TileState(t) \in Terminal)
    /\ <>(ppc = "done")

\* the first tile exhausted its attempts, the tiles after it were
\* submitted all the same and the run is over
C14_Witness ==
    /\ ppc = "done"
    /\ TileState(1) = "Failed"
    /\ task[1].pc = "closed"
    /\ \A t \in DOMAIN task \ {0, 1} :
         task[t].pc = "closed" /\ TileState(t) = "Skipped"

\* C15: under every interleaving of the producer's "executing += 1" with
\* the callbacks' "executing -= 1" and "done = done + 1", executing is never
\* negative, and when the tile loop is over (the with block left) done is
\* the number of tiles pulled from the source, executing is 0 and the
\* semaphore holds all MAX_WORKERS permits.
C15_CountersAtomic ==
    /\ executing >= 0
    /\ ppc = "grids" =>
         /\ done = ntiles
         /\ executing = 0
         /\ sem = MAX_WORKERS

\* C18: on a 429 get_upload_url sleeps the Retry-After duration, or exactly
\* 1s when the header is absent, whatever came before (earlier 503s
\* included), and then makes the next acquisition request: no answer 429
\* ends the call with an exception, and a transfer is made only with a token
\* that a 200 returned.
C18_SleepOn429 ==
    \A t \in DOMAIN task :
        /\ task[t].pc = "acquire" /\ task[t].after = 429 => task[t].slept = 1
        /\ task[t].err # "TypeError"
        /\ task[t].pc = "transfer" => task[t].uploadurl \in 1..(next_token - 1)

\* C19: an upload run over a store that holds a grid never completes
\* normally: it ends with the exception raised at the first row of the
\* grids cursor, and only tiles and metadata.json are ever uploaded; a store
\* without grids never ends that way.
C19_GridsFailTheRun ==
    /\ ngrids > 0 => ppc # "done"
    /\ ppc = "raised" => ngrids > 0 /\ kind = "mbtiles"
    /\ \A t \in DOMAIN task : task[t].key \in 0..ntiles

\* the tile of a store with a grid was uploaded and the run then ended with
\* 'grids are not supported'
C19_Witness ==
    /\ ngrids > 0
    /\ ppc = "raised"
    /\ task[1].result = "Success"

\* C20: under every interleaving of the check "len(upload_urls) > 0" and
\* the pop in different workers, a worker that finds the pool emptied goes
\* on to acquire a token: no pass of the attempt loop ends with the
\* IndexError of a pop from the empty pool.
C20_PoolRaceFree ==
    \A t \in DOMAIN task : task[t].err # "IndexError"

\* the tasks holding a token: between the pop or the acquisition and the
\* end of the pass
Holders == { t \in DOMAIN task : task[t].uploadurl # 0 }

\* C23: no token is in two hands at once, none is in the pool and in a hand
\* at once, the pool holds no token twice, and the tokens in the pool and in
\* hands together are never more than MAX_WORKERS.
C23_TokensExclusiveBounded ==
    /\ \A a, b \in Holders : a # b => task[a].uploadurl # task[b].uploadurl
    /\ Pool \cap InHand = {}
    /\ \A j, k \in DOMAIN upload_urls : j # k => upload_urls[j] # upload_urls[k]
    /\ Len(upload_urls) + Cardinality(Holders) <= MAX_WORKERS

\* as many tokens as workers are in circulation: one in the pool while a
\* running task holds another
C23_Witness ==
    /\ Len(upload_urls) + Cardinality(Holders) = MAX_WORKERS
    /\ upload_urls # <<>>
    /\ \E t \in Holders : t # 0 /\ task[t].pc = "transfer"

(* ------------------------ properties of upload_tile --------------------- *)

Digits(s) == \A k \in DOMAIN s : s[k] \in 0..9

\* s is the decimal text of n
Decimal(s, n) ==
    /\ s # <<>>
    /\ Digits(s)
    /\ Len(s) > 1 => s[1] # 0
    /\ int(s) = n

\* s is n written with exactly w digits
Group(s, n, w) ==
    /\ Len(s) = w
    /\ Digits(s)
    /\ int(s) = n

\* k is the key of the tile (z, c, r) under the tms layout
TmsKey(k, z, c, r, ext) ==
    /\ k.prefix = KeyPrefix
    /\ Len(k.dir) = 2
    /\ Decimal(k.dir[1], z)
    /\ Decimal(k.dir[2], c)
    /\ Decimal(k.stem, r)
    /\ k.ext = ext

\* k is the key of the tile (z, c, r) under the wms layout
WmsKey(k, z, c, r, ext) ==
    /\ k.prefix = KeyPrefix
    /\ Len(k.dir) = 6
    /\ Group(k.dir[1], z, 2)
    /\ Group(k.dir[2], c \div 1000000, 3)
    /\ Group(k.dir[3], (c \div 1000) % 1000, 3)
    /\ Group(k.dir[4], c % 1000, 3)
    /\ Group(k.dir[5], r \div 1000000, 3)
    /\ Group(k.dir[6], (r \div 1000) % 1000, 3)
    /\ Group(k.stem, r % 1000, 3)
    /\ k.ext = ext

\* the row handed to upload_tile: the source's row, flipped for an archive
PassedRow == IF dpc = "key_pmtiles" THEN (Pow2(arg_zoom) - 1) - arg_y ELSE arg_y

\* C22: the key upload_tile builds for a tile (zoom, column, row) and a
\* format is prefix/zoom/column/row.ext under tms, the same with the row
\* flipped under xyz, and prefix/zz/ccc/ccc/ccc/rrr/rrr/rrr.ext under wms
\* with the three-digit groups of column and row; for an archive the row
\* handed in is the flipped native row, so that under xyz the key carries
\* the native row.
C22_KeyFormat ==
    dpc \in {"key_mbtiles", "key_pmtiles"} =>
        /\ scheme = "tms" =>
               TmsKey(key, arg_zoom, arg_x, PassedRow, image_format)
        /\ scheme = "xyz" =>
               TmsKey(key, arg_zoom, arg_x, (Pow2(arg_zoom) - 1) - PassedRow,
                      image_format)
        /\ scheme = "wms" =>
               WmsKey(key, arg_zoom, arg_x, PassedRow, image_format)
        /\ (dpc = "key_pmtiles" /\ scheme = "xyz") => Decimal(key.stem, arg_y)

\* a wms key of a table-backed tile whose column fills all three groups
C22_Witness ==
    /\ dpc = "key_mbtiles"
    /\ scheme = "wms"
    /\ arg_x = 1234567
    /\ arg_y = 1001
    /\ key.dir = << <<2, 1>>, <<0, 0, 1>>, <<2, 3, 4>>, <<5, 6, 7>>,
                    <<0, 0, 0>>, <<0, 0, 1>> >>
    /\ key.stem = <<0, 0, 1>>

(* ------------------- properties of the compaction ---------------------- *)

\* compression_do has returned
Compacted == cpc \in {"finalize", "finalized", "error"}

\* positions of the map rows (AddressEntries) carrying the address of row r
MapRowsOf(r) == { k \in DOMAIN map : Addr(map[k]) = Addr(r) }

DistinctBlobs(t) == { t[k].tile_data : k \in DOMAIN t }

HasDuplicateBlobs(t) ==
    \E a, b \in DOMAIN t : a # b /\ t[a].tile_data = t[b].tile_data

Count(tbl, r) == Cardinality({ k \in DOMAIN tbl : tbl[k] = r })

\* C3: after compression_do, any two tiles with byte-identical blobs have
\* map rows with the same tile_id, wherever they sit relative to the chunk
\* boundaries.
C3_SameBlobSameId ==
    Compacted =>
        \A a, b \in DOMAIN input :
            input[a].tile_data = input[b].tile_data =>
                \A ka \in MapRowsOf(input[a]), kb \in MapRowsOf(input[b]) :
                    map[ka].tile_id = map[kb].tile_id

\* C4: after compression_do, count(images) <= count(map), with equality
\* iff the input held no two tiles with byte-identical blobs; the number of
\* images rows is the number of distinct blobs of the input.
C4_BlobCount ==
    Compacted =>
        /\ Len(images) <= Len(map)
        /\ (Len(images) = Len(map)) <=> ~HasDuplicateBlobs(input)
        /\ Len(images) = Cardinality(DistinctBlobs(input))

\* C5: after compression_do, for any table and chunk size, every input
\* tile has exactly one map row with its (zoom, column, row) and
\* count(map) = count(input tiles): no tile is skipped by the rowid-range
\* loop and none is visited twice.
C5_OneAddressPerTile ==
    Compacted =>
        /\ Len(map) = Len(input)
        /\ total = Len(input)
        /\ \A k \in DOMAIN input : Cardinality(MapRowsOf(input[k])) = 1

\* a table whose last round is partial, compacted in several rounds
C5_Witness ==
    /\ Compacted
    /\ chunk = 2
    /\ Len(input) >= 3
    /\ Len(input) % chunk # 0
    /\ Len(map) = Len(input)

\* C6: after compression_do, two tiles whose blobs differ have map rows
\* with different tile_ids; the ids of the images rows are 1, 2, 3, ... in
\* insertion order across all rounds, none used twice.
C6_DifferentBlobDifferentId ==
    Compacted =>
        /\ \A a, b \in DOMAIN input :
              input[a].tile_data # input[b].tile_data =>
                  \A ka \in MapRowsOf(input[a]), kb \in MapRowsOf(input[b]) :
                      map[ka].tile_id # map[kb].tile_id
        /\ \A k \in DOMAIN images : images[k].tile_id = k
        /\ last_id = Len(images)

\* differing blobs met in different rounds
C6_Witness ==
    /\ Compacted
    /\ chunk = 1
    /\ Len(images) >= 2
    /\ \E a, b \in DOMAIN input : input[a].tile_data # input[b].tile_data

\* C7: after compression_prepare, compression_do and compression_finalize
\* the tiles view holds exactly the rows of the original tiles table: each
\* original tile once, with its original blob, and no other row.
C7_ViewEqualsTiles ==
    /\ cpc # "error"
    /\ cpc = "finalized" =>
          /\ Len(view) = Len(input)
          /\ \A k \in DOMAIN input : Count(view, input[k]) = 1
          /\ \A k \in DOMAIN view : Count(input, view[k]) = 1

\* a finalized store that was compacted in several rounds and shares a blob
C7_Witness ==
    /\ cpc = "finalized"
    /\ i > 1
    /\ overlapping > 0
    /\ Len(view) >= 3

C16_FlipInvolution ==
    \A k \in DOMAIN flips :
        /\ 0 <= flips[k]
        /\ flips[k] < Pow2(arg_zoom)
        /\ k >= 2 => flips[k] = (IF k = 2 THEN arg_y ELSE flips[k - 2])

\* flip_y was applied twice to the first row of the deepest zoom
C16_Witness ==
    /\ dpc = "flip"
    /\ arg_zoom = MaxZoom
    /\ arg_y = 0
    /\ Len(flips) >= 2
    /\ flips[1] = Pow2(MaxZoom) - 1
    /\ flips[2] = 0

\* C17: a directory of tile files {zoom}/{column}/{row}.{ext} in the
\* configured format, imported by disk_to_mbtiles and exported again by
\* mbtiles_to_disk under the same scheme (tms or xyz), with or without
\* compaction on import, comes back as it was: every file at its path with
\* its content, and no other tile file; the import does not fail.
C17_RoundTrip ==
    /\ dpc \in {"import", "imported", "exported"} => cpc # "error"
    /\ dpc = "exported" => outtree = { listing[k] : k \in DOMAIN listing }

\* a directory with both rows of a zoom 1 column, holding the same image,
\* went through a compacting import and the export under xyz
C17_Witness ==
    /\ dpc = "exported"
    /\ scheme = "xyz"
    /\ compression
    /\ cpc = "finalized"
    /\ Len(images) < Len(map)
    /\ \E a, b \in DOMAIN listing :
         /\ listing[a].zoom_dir = <<1>>
         /\ listing[b].zoom_dir = <<1>>
         /\ listing[a].file_name = <<0>>
         /\ listing[b].file_name = <<1>>
         /\ listing[a].content = listing[b].content
    /\ Cardinality(outtree) = Len(listing)

=============================================================================
